---- MODULE Spec2Model ----
(***************************************************************************)
(* Model of mmg's level-set material classification (src/common/mmg2.c)    *)
(* and of the anisotropic metric interpolation (src/mmg3d/intmet.c).       *)
(***************************************************************************)
EXTENDS Integers, Sequences, FiniteSets, TLC

VARIABLES
  nmat,      \* mesh->info.nmat: number of declared materials
  nmati,     \* mesh->info.nmati: number of materials supplied so far
  mat,       \* mesh->info.mat[0..nmat-1] (TLA index k+1)
  invmat,    \* mesh->info.invmat: [offset, size, lookup]
  op,        \* name of the last operation that ran
  qa, qb,    \* reference arguments of the last query
  ret,       \* return value of the last operation
  refint,    \* *refint of the last MMG5_isSplit call
  refext,    \* *refext of the last MMG5_isSplit call
  met_m,     \* met->m: six entries per point (TLA index j+1)
  met0,      \* met->m as it was when the last interpolation was called
  ptag,      \* mesh->point[p].tag of the points of the tetrahedron
  mop,       \* name of the last interpolation that ran
  edge,      \* boundary record read by the last _MMG5_intmet_ani
  path,      \* branch _MMG5_intmet_ani dispatched to
  mret,      \* return value of the last interpolation
  stage,     \* the step of the last interpolation that failed
  exited     \* the process has called exit()

matvars == <<nmat, nmati, mat, invmat, op, qa, qb, ret, refint, refext>>
metvars == <<met_m, met0, ptag, mop, edge, path, mret, stage, exited>>
vars == <<matvars, metvars>>

(***************************************************************************)
(* Bounds of the model.                                                    *)
(***************************************************************************)
MaxMat == 2
MaxRef == 3

Refs == 0..MaxRef

(***************************************************************************)
(* Program constants.                                                      *)
(***************************************************************************)
MG_PLUS == 2
MG_MINUS == 3
INT_MAX == 2147483647

\* Value of a caller's local that no call has written yet.
Unset == -1

\* The boundary record when no edge interpolation has run.
NoEdge == [xt |-> 0, tag |-> {}, f0 |-> FALSE, f1 |-> FALSE, face |-> -1]

\* The boundary record _MMG5_intmet_ani read (pt->xt, the tag of the edge, the
\* MG_BDY tags of the two faces of the edge) and the face it interpolated on.
EdgeRec(xt, etag, f0, f1, face) ==
  [xt |-> xt, tag |-> etag, f0 |-> f0, f1 |-> f1, face |-> face]

\* A calloc'ed material slot.
ZeroMat == [ref |-> 0, dospl |-> 0, rin |-> 0, rex |-> 0]

\* The materials a user can declare: the child references of a material
\* that is not split are never read.
Materials ==
  [ref : Refs, dospl : {1}, rin : Refs, rex : Refs]
    \cup [ref : Refs, dospl : {0}, rin : {0}, rex : {0}]

\* mesh->info.invmat before any table is built.
NoTable == [offset |-> 0, size |-> 0, lookup |-> <<>>]

Children(pm) == IF pm.dospl # 0 THEN {pm.rin, pm.rex} ELSE {}

\* The configuration checks made when a material is declared: no two
\* materials share an original reference, no two distinct materials declare
\* the same child reference.
Compatible(pm, k) ==
  \A j \in 1..k :
    /\ mat[j].ref # pm.ref
    /\ Children(mat[j]) \cap Children(pm) = {}

(***************************************************************************)
(* The lookup table.                                                       *)
(***************************************************************************)
MMG5_InvMat_key(pim, ref) == ref - pim.offset

Store(pim, ref, v) ==
  [pim EXCEPT !.lookup[MMG5_InvMat_key(pim, ref) + 1] = v]

MutSetKeepsParentSlot(pim, pm) ==
  IF pm.dospl # 0
    THEN LET p1 == IF pm.rin = pm.ref THEN Store(pim, pm.ref, pm.dospl)
                   ELSE Store(Store(pim, pm.ref, pm.dospl), pm.rin,
                              4 * (pm.ref + 1) + MG_MINUS)
         IN  IF pm.rex = pm.ref THEN p1
             ELSE Store(p1, pm.rex, 4 * (pm.ref + 1) + MG_PLUS)
    ELSE Store(pim, pm.ref, pm.dospl)

MutSetParentNoShift(pim, pm) ==
  LET p0 == Store(pim, pm.ref, pm.dospl)
  IN  IF pm.dospl # 0
        THEN Store(Store(p0, pm.rin, 4 * pm.ref + MG_MINUS),
                   pm.rex, 4 * pm.ref + MG_PLUS)
        ELSE p0

MMG5_InvMat_set(pim, pm) ==
  LET p0 == Store(pim, pm.ref, pm.dospl)
  IN  IF pm.dospl # 0
        THEN Store(Store(p0, pm.rin, 4 * (pm.ref + 1) + MG_MINUS),
                   pm.rex, 4 * (pm.ref + 1) + MG_PLUS)
        ELSE p0

MutGetParentNoDecrement(pim, ref) ==
  pim.lookup[MMG5_InvMat_key(pim, ref) + 1] \div 4

MMG5_InvMat_getParent(pim, ref) ==
  (pim.lookup[MMG5_InvMat_key(pim, ref) + 1] \div 4) - 1

MMG5_InvMat_getTag(pim, ref) ==
  pim.lookup[MMG5_InvMat_key(pim, ref) + 1] % 4

\* The references the table can be asked about.
InRange(pim, ref) == pim.offset <= ref /\ ref < pim.offset + pim.size

(***************************************************************************)
(* MMG5_MultiMat_init                                                      *)
(***************************************************************************)
Max2(a, b) == IF b > a THEN b ELSE a
Min2(a, b) == IF b < a THEN b ELSE a

\* The loop looking for the max/min reference, from material k on.
RECURSIVE RefSpan(_, _, _)
RefSpan(k, refmax, refmin) ==
  IF k >= nmat THEN [refmax |-> refmax, refmin |-> refmin]
  ELSE LET pm == mat[k + 1]
           mx0 == Max2(refmax, pm.ref)
           mn0 == Min2(refmin, pm.ref)
       IN  IF pm.dospl = 0 THEN RefSpan(k + 1, mx0, mn0)
           ELSE RefSpan(k + 1, Max2(Max2(mx0, pm.rin), pm.rex),
                               Min2(Min2(mn0, pm.rin), pm.rex))

\* The loop filling the lookup table, from material k on.
RECURSIVE FillLookup(_, _)
FillLookup(pim, k) ==
  IF k >= nmat THEN pim
  ELSE FillLookup(MMG5_InvMat_set(pim, mat[k + 1]), k + 1)

MutSpannedOneShort ==
  LET sp == RefSpan(0, 0, INT_MAX)
  IN  [offset |-> sp.refmin, size |-> sp.refmax - sp.refmin,
       lookup |-> <<>>]

\* The table with its span set and its lookup not allocated.
Spanned ==
  LET sp == RefSpan(0, 0, INT_MAX)
  IN  [offset |-> sp.refmin, size |-> sp.refmax - sp.refmin + 1,
       lookup |-> <<>>]

MutInitSpanFirst(memok) ==
  IF nmat = 0 THEN [r |-> 1, pim |-> invmat]
  ELSE IF nmati < nmat THEN [r |-> 0, pim |-> Spanned]
  ELSE IF ~memok THEN [r |-> 0, pim |-> Spanned]
  ELSE [r |-> 1,
        pim |-> FillLookup([Spanned EXCEPT
                  !.lookup = [x \in 1..Spanned.size |-> 0]], 0)]

\* The outcome of MMG5_MultiMat_init: its return value and the table it
\* leaves; memok tells whether the allocation of the lookup array succeeds.
MultiMat_initResult(memok) ==
  IF nmat = 0 THEN [r |-> 1, pim |-> invmat]
  ELSE IF nmati < nmat THEN [r |-> 0, pim |-> invmat]
  ELSE IF ~memok THEN [r |-> 0, pim |-> Spanned]
  ELSE [r |-> 1,
        pim |-> FillLookup([Spanned EXCEPT
                  !.lookup = [x \in 1..Spanned.size |-> 0]], 0)]

(***************************************************************************)
(* The queries.                                                            *)
(***************************************************************************)
\* The scan of MMG5_isSplit, from material k on.
RECURSIVE IsSplitScan(_, _)
IsSplitScan(ref, k) ==
  IF k >= nmat
    THEN [r |-> 1, refint |-> MG_MINUS, refext |-> MG_PLUS]
  ELSE LET pm == mat[k + 1]
       IN  IF pm.ref = ref
             THEN IF pm.dospl = 0
                    THEN [r |-> 0, refint |-> Unset, refext |-> Unset]
                    ELSE [r |-> 1, refint |-> pm.rin, refext |-> pm.rex]
             ELSE IsSplitScan(ref, k + 1)

MutIsSplitDefaultNoSplit(ref) ==
  LET s == IsSplitScan(ref, 0)
  IN  IF \E k \in 1..nmat : mat[k].ref = ref THEN s
      ELSE [r |-> 0, refint |-> Unset, refext |-> Unset]

MMG5_isSplitResult(ref) == IsSplitScan(ref, 0)

MMG5_isNotSplitResult(ref) ==
  IF nmat = 0 THEN 0
  ELSE IF MMG5_InvMat_getTag(invmat, ref) = 0 THEN 0 ELSE 1

MutIsLevelSetAnyChild(ref0, ref1) ==
  IF MMG5_InvMat_getTag(invmat, ref0) >= MG_PLUS
       /\ MMG5_InvMat_getTag(invmat, ref1) >= MG_PLUS
    THEN 1 ELSE 0

MMG5_isLevelSetResult(ref0, ref1) ==
  LET found0 == MMG5_InvMat_getTag(invmat, ref0)
      found1 == MMG5_InvMat_getTag(invmat, ref1)
  IN  IF found0 + found1 = MG_MINUS + MG_PLUS THEN 1 ELSE 0

MMG5_getIniRefResult(ref) ==
  IF nmat = 0 THEN 0
  ELSE LET k == MMG5_InvMat_getParent(invmat, ref)
       IN  IF k = -1 THEN ref ELSE k

(***************************************************************************)
(* Actions on the materials.                                               *)
(***************************************************************************)
\* The metric side when no interpolation is under study.
MetIdle ==
  /\ met_m = <<>> /\ met0 = <<>>
  /\ ptag = <<>>
  /\ mop = "none" /\ path = "none"
  /\ edge = NoEdge
  /\ mret = Unset
  /\ stage = "none"
  /\ exited = FALSE

Init ==
  /\ nmat \in 0..MaxMat
  /\ nmati = 0
  /\ mat = [k \in 1..nmat |-> ZeroMat]
  /\ invmat = NoTable
  /\ op = "none"
  /\ qa = Unset /\ qb = Unset
  /\ ret = Unset
  /\ refint = Unset /\ refext = Unset
  /\ MetIdle

\* The table has been built (or, without materials, is not needed).
Queries == {"isSplit", "isNotSplit", "isLevelSet", "getIniRef"}

\* The table has been built (or, without materials, is not needed).  The
\* queries change nothing, so each is explored from the state the build left.
Ready == op = "MultiMat_init" /\ ret = 1

\* A material is supplied: it fills the next slot of mesh->info.mat.
Set_multiMat ==
  /\ op \in {"none", "Set_multiMat"}
  /\ nmati < nmat
  /\ \E pm \in Materials :
       /\ Compatible(pm, nmati)
       /\ mat' = [mat EXCEPT ![nmati + 1] = pm]
  /\ nmati' = nmati + 1
  /\ op' = "Set_multiMat"
  /\ UNCHANGED <<nmat, invmat, qa, qb, ret, refint, refext, metvars>>

MultiMat_init ==
  /\ op \in {"none", "Set_multiMat"}
  /\ \E memok \in BOOLEAN :
       \E res \in {MultiMat_initResult(memok)} :
           /\ ret' = res.r
           /\ invmat' = res.pim
  /\ op' = "MultiMat_init"
  /\ UNCHANGED <<nmat, nmati, mat, qa, qb, refint, refext, metvars>>

isSplit ==
  /\ Ready
  /\ \E ref \in 0..(MaxRef + 1) :
       \E res \in {MMG5_isSplitResult(ref)} :
           /\ qa' = ref
           /\ ret' = res.r
           /\ refint' = res.refint
           /\ refext' = res.refext
  /\ op' = "isSplit"
  /\ qb' = Unset
  /\ UNCHANGED <<nmat, nmati, mat, invmat, metvars>>

isNotSplit ==
  /\ Ready
  /\ \E ref \in Refs :
       /\ nmat # 0 => InRange(invmat, ref)
       /\ qa' = ref
       /\ ret' = MMG5_isNotSplitResult(ref)
  /\ op' = "isNotSplit"
  /\ qb' = Unset /\ refint' = Unset /\ refext' = Unset
  /\ UNCHANGED <<nmat, nmati, mat, invmat, metvars>>

isLevelSet ==
  /\ Ready
  /\ nmat # 0
  /\ \E ref0, ref1 \in Refs :
       /\ InRange(invmat, ref0) /\ InRange(invmat, ref1)
       /\ qa' = ref0 /\ qb' = ref1
       /\ ret' = MMG5_isLevelSetResult(ref0, ref1)
  /\ op' = "isLevelSet"
  /\ refint' = Unset /\ refext' = Unset
  /\ UNCHANGED <<nmat, nmati, mat, invmat, metvars>>

getIniRef ==
  /\ Ready
  /\ \E ref \in Refs :
       /\ nmat # 0 => InRange(invmat, ref)
       /\ qa' = ref
       /\ ret' = MMG5_getIniRefResult(ref)
  /\ op' = "getIniRef"
  /\ qb' = Unset /\ refint' = Unset /\ refext' = Unset
  /\ UNCHANGED <<nmat, nmati, mat, invmat, metvars>>

Next ==
  \/ Set_multiMat
  \/ MultiMat_init
  \/ isSplit
  \/ isNotSplit
  \/ isLevelSet
  \/ getIniRef

Spec == Init /\ [][Next]_vars

(***************************************************************************)
(* Metric interpolation (mmg3d/intmet.c).                                  *)
(*                                                                         *)
(* A tensor is the six entries (m11,m12,m13,m22,m23,m33) of a symmetric    *)
(* matrix, held as integers.  The interpolation parameter s and the        *)
(* barycentric weights cb are numerators over Den.                         *)
(***************************************************************************)
Den == 2

\* Bound: at most MaxOdd vertices of the tetrahedron differ from an ordinary
\* point carrying the positive definite tensor.
MaxOdd == 2

\* The tetrahedron under study: its vertices pt->v[0..3] and the new point.
\* Points 0..NPoints-1: point 0 is never used by mmg, ExtraPoints points
\* follow the new one.
TetraV == <<1, 2, 3, 4>>
NewPoint == Len(TetraV) + 1
ExtraPoints == 1
NPoints == NewPoint + 1 + ExtraPoints

\* met->size of a tensor metric.
MetSize == 6

\* _MMG5_iare: the two local vertices of each local edge.
MMG5_iare == <<<<0, 1>>, <<0, 2>>, <<0, 3>>, <<1, 2>>, <<1, 3>>, <<2, 3>>>>

\* Input tensors: one positive definite, its opposite, one singular.
TensU == <<1, 1, 0, 2, 0, 1>>
TensN == <<-1, -1, 0, -2, 0, -1>>
TensZ == <<0, 0, 0, 0, 0, 0>>
Tensors == {TensU, TensN, TensZ}

\* Point tags: ordinary, ridge, singular ridge.
PointTags == {{}, {"GEO"}, {"GEO", "CRN"}}

MG_SIN(tag) == tag \cap {"CRN", "REQ"} # {}

\* The six entries of point p in the flat array m, stride sz.
Slot(m, sz, p) == SubSeq(m, sz * p + 1, sz * p + 6)

\* The flat array m with t written at the six entries of point p.
WriteSlot(m, sz, p, t) ==
  SubSeq(m, 1, sz * p) \o t \o SubSeq(m, sz * p + 7, Len(m))

IDiv(a, d) == IF d < 0 THEN (-a) \div (-d) ELSE a \div d

\* _MMG5_invmat: the inverse of a symmetric matrix by its cofactors; fails
\* on a singular matrix.
MMG5_invmat(m) ==
  LET aa == m[4] * m[6] - m[5] * m[5]
      bb == m[5] * m[3] - m[2] * m[6]
      cc == m[2] * m[5] - m[3] * m[4]
      det == m[1] * aa + m[2] * bb + m[3] * cc
  IN  IF det = 0 THEN [ok |-> FALSE, mi |-> TensZ]
      ELSE [ok |-> TRUE,
            mi |-> <<IDiv(aa, det), IDiv(bb, det), IDiv(cc, det),
                     IDiv(m[1] * m[6] - m[3] * m[3], det),
                     IDiv(m[2] * m[3] - m[1] * m[5], det),
                     IDiv(m[1] * m[4] - m[2] * m[2], det)>>]

\* (1-t)*a + t*b, entry by entry, with t the numerator of the parameter.
Blend(a, b, t) ==
  LET e(i) == IDiv((Den - t) * a[i] + t * b[i], Den)
  IN  <<e(1), e(2), e(3), e(4), e(5), e(6)>>

\* cb[0]*a + cb[1]*b + cb[2]*c + cb[3]*d, entry by entry.
Bary(cb, a, b, c, d) ==
  LET e(i) == IDiv(cb[1] * a[i] + cb[2] * b[i] + cb[3] * c[i] + cb[4] * d[i],
                   Den)
  IN  <<e(1), e(2), e(3), e(4), e(5), e(6)>>

\* What _MMG5_moymet can do: fail (<<>>), or give an averaged tensor.
MoyOutcomes == {<<>>, TensU, TensZ}

\* What the ridge and boundary interpolations can do: fail and leave mr,
\* fail after writing mr, succeed and write mr.
ExtOutcomes ==
  {[r |-> 0, w |-> <<>>], [r |-> 0, w |-> TensZ], [r |-> 1, w |-> TensU]}

\* The point's stored tensor is used as it is (it is singular, non-manifold
\* or not on a ridge); otherwise _MMG5_moymet averages.
UsesStored(tag) == MG_SIN(tag) \/ "NOM" \in tag \/ "GEO" \notin tag

\* The tensor _MMG5_intvolmet and _MMG5_interp4bar_ani take for point p:
\* <<>> when _MMG5_moymet fails; moy is what _MMG5_moymet does if called.
Resolve(m, p, moy) ==
  IF UsesStored(ptag[p]) THEN Slot(m, MetSize, p) ELSE moy

\* The outcomes of _MMG5_moymet to consider for point p.
MoyFor(p) == IF UsesStored(ptag[p]) THEN {<<>>} ELSE MoyOutcomes

\* _MMG5_intregvolmet: its return value and the content of mp after it.
MMG5_intregvolmet(ma, mb, mp, t) ==
  LET ia == MMG5_invmat(ma)
      ib == MMG5_invmat(mb)
  IN  IF ~ia.ok \/ ~ib.ok THEN [r |-> 0, mp |-> mp, stage |-> "inv"]
      ELSE LET mi == Blend(ia.mi, ib.mi, t)
               im == MMG5_invmat(mi)
           IN  IF ~im.ok THEN [r |-> 0, mp |-> mp, stage |-> "invfinal"]
               ELSE [r |-> 1, mp |-> im.mi, stage |-> "none"]

\* _MMG5_intvolmet on edge i at parameter s, writing the slot of point ip:
\* the return value, the array, whether exit() was called, the failed step.
MMG5_intvolmet(m, i, ip, s, moy1, moy2) ==
  LET ip1 == TetraV[MMG5_iare[i + 1][1] + 1]
      ip2 == TetraV[MMG5_iare[i + 1][2] + 1]
      m1 == Resolve(m, ip1, moy1)
      m2 == Resolve(m, ip2, moy2)
  IN  IF m1 = <<>> \/ m2 = <<>>
        THEN [r |-> 0, m |-> m, exit |-> FALSE, stage |-> "moymet"]
      ELSE LET reg == MMG5_intregvolmet(m1, m2, Slot(m, 6, ip), s)
           IN  IF reg.mp[6] = 0
                 THEN [r |-> Unset, m |-> WriteSlot(m, 6, ip, reg.mp),
                       exit |-> TRUE, stage |-> reg.stage]
                 ELSE [r |-> 1, m |-> WriteSlot(m, 6, ip, reg.mp),
                       exit |-> FALSE, stage |-> reg.stage]

MutInternWritesUnchecked(m, ip, cb, dm) ==
  LET i0 == MMG5_invmat(dm[1])
      i1 == MMG5_invmat(dm[2])
      i2 == MMG5_invmat(dm[3])
      i3 == MMG5_invmat(dm[4])
  IN  IF ~i0.ok \/ ~i1.ok \/ ~i2.ok \/ ~i3.ok
        THEN [r |-> 0, m |-> m, stage |-> "inv"]
      ELSE LET mi == Bary(cb, i0.mi, i1.mi, i2.mi, i3.mi)
               im == MMG5_invmat(mi)
           IN  IF ~im.ok
                 THEN [r |-> 0, m |-> WriteSlot(m, MetSize, ip, im.mi),
                       stage |-> "invfinal"]
                 ELSE [r |-> 1, m |-> WriteSlot(m, MetSize, ip, im.mi),
                       stage |-> "none"]

\* _MMG5_interp4barintern on the four tensors dm with weights cb.
MMG5_interp4barintern(m, ip, cb, dm) ==
  LET i0 == MMG5_invmat(dm[1])
      i1 == MMG5_invmat(dm[2])
      i2 == MMG5_invmat(dm[3])
      i3 == MMG5_invmat(dm[4])
  IN  IF ~i0.ok \/ ~i1.ok \/ ~i2.ok \/ ~i3.ok
        THEN [r |-> 0, m |-> m, stage |-> "inv"]
      ELSE LET mi == Bary(cb, i0.mi, i1.mi, i2.mi, i3.mi)
               im == MMG5_invmat(mi)
           IN  IF ~im.ok THEN [r |-> 0, m |-> m, stage |-> "invfinal"]
               ELSE [r |-> 1, m |-> WriteSlot(m, MetSize, ip, im.mi),
                     stage |-> "none"]

\* _MMG5_interp4bar_ani: moy[j] is what _MMG5_moymet does for vertex j.
MMG5_interp4bar_ani(m, ip, cb, moy) ==
  LET dm == [j \in 1..4 |-> Resolve(m, TetraV[j], moy[j])]
  IN  IF \E j \in 1..4 : dm[j] = <<>>
        THEN [r |-> 0, m |-> m, stage |-> "moymet"]
        ELSE MMG5_interp4barintern(m, ip, cb, dm)

\* _MMG5_interp4bar33_ani: the stored tensors, whatever the point tags.
MMG5_interp4bar33_ani(m, ip, cb) ==
  MMG5_interp4barintern(m, ip, cb,
                        [j \in 1..4 |-> Slot(m, MetSize, TetraV[j])])

\* The tags pxt->tag[i] of an edge.
EdgeTags == SUBSET {"GEO", "BDY"}

\* The branch _MMG5_intmet_ani takes.
MMG5_intmet_aniPath(xt, etag) ==
  IF xt # 0
    THEN IF "GEO" \in etag THEN "ridge"
         ELSE IF "BDY" \in etag THEN "boundary"
         ELSE "internal"
    ELSE "internal"

\* The face _MMG5_intregmet hands to _MMG5_tet2tri: 0 for ifa0, 1 for ifa1,
\* -1 when it takes none.
MMG5_intregmetFace(f0, f1) == IF f0 THEN 0 ELSE IF f1 THEN 1 ELSE -1

MutIntregmetNeedsBothFaces(m, ip, f0, f1, out) ==
  IF f0 /\ f1
    THEN [r |-> out.r,
          m |-> IF out.w = <<>> THEN m ELSE WriteSlot(m, 6, ip, out.w),
          face |-> MMG5_intregmetFace(f0, f1),
          stage |-> IF out.r = 0 THEN "boundary" ELSE "none"]
    ELSE [r |-> -1, m |-> m, face |-> -1, stage |-> "none"]

\* _MMG5_intregmet writing the slot of point ip: f0, f1 are the MG_BDY tags of
\* faces ifa0, ifa1 and out is what _MMG5_interpreg_ani does if called.
MMG5_intregmet(m, ip, f0, f1, out) ==
  IF MMG5_intregmetFace(f0, f1) # -1
    THEN [r |-> out.r,
          m |-> IF out.w = <<>> THEN m ELSE WriteSlot(m, 6, ip, out.w),
          face |-> MMG5_intregmetFace(f0, f1),
          stage |-> IF out.r = 0 THEN "boundary" ELSE "none"]
    ELSE [r |-> -1, m |-> m, face |-> -1, stage |-> "none"]

\* Barycentric weights: numerators over Den, summing to Den.
Weights ==
  {cb \in [1..4 -> 0..Den] : cb[1] + cb[2] + cb[3] + cb[4] = Den}

\* The flat array holding tensor t[p] for each point p of 0..NPoints-1.
Flat(t) ==
  [j \in 1..(6 * NPoints) |-> t[(j - 1) \div 6][((j - 1) % 6) + 1]]

(***************************************************************************)
(* Actions on the metric.                                                  *)
(***************************************************************************)
MatIdle ==
  /\ nmat = 0 /\ nmati = 0
  /\ mat = <<>>
  /\ invmat = NoTable
  /\ op = "none"
  /\ qa = Unset /\ qb = Unset
  /\ ret = Unset
  /\ refint = Unset /\ refext = Unset

\* The vertices that are not ordinary points carrying TensU.
Odd(t, g) == {p \in 1..4 : t[p] # TensU \/ g[p] # {}}

InitMet ==
  /\ MatIdle
  /\ \E t \in [1..4 -> Tensors], g \in [1..4 -> PointTags],
        old \in {TensZ, TensU} :
       /\ Cardinality(Odd(t, g)) <= MaxOdd
       /\ met_m = Flat([p \in 0..(NPoints - 1) |->
                          IF p = 0 THEN TensZ
                          ELSE IF p = NewPoint THEN old
                          ELSE IF p > NewPoint THEN TensU ELSE t[p]])
       /\ ptag = g
  /\ met0 = met_m
  /\ mop = "none" /\ path = "none"
  /\ edge = NoEdge
  /\ mret = Unset
  /\ stage = "none"
  /\ exited = FALSE

\* _MMG5_intmet_ani on edge i of the tetrahedron: xt is pt->xt (0: no boundary
\* record), etag is the tag of edge i in the boundary record, f0 and f1 tell
\* whether the two faces of the edge are tagged MG_BDY.
intmet_ani ==
  /\ mop = "none"
  /\ \E xt \in {0, 1}, etag \in EdgeTags, f0, f1 \in BOOLEAN :
       \* the face tags are read on the boundary branch only
       /\ MMG5_intmet_aniPath(xt, etag) # "boundary" => (~f0 /\ ~f1)
       /\ path' = MMG5_intmet_aniPath(xt, etag)
       /\ IF path' = "ridge"
            THEN \E out \in ExtOutcomes :
                   /\ met_m' = IF out.w = <<>> THEN met_m
                               ELSE WriteSlot(met_m, 6, NewPoint, out.w)
                   /\ mret' = out.r
                   /\ stage' = IF out.r = 0 THEN "ridge" ELSE "none"
                   /\ exited' = FALSE
                   /\ edge' = EdgeRec(xt, etag, f0, f1, -1)
          ELSE IF path' = "boundary"
            THEN \E out \in ExtOutcomes :
                   \E res \in {MMG5_intregmet(met_m, NewPoint, f0, f1, out)} :
                       /\ met_m' = res.m
                       /\ mret' = res.r
                       /\ stage' = res.stage
                       /\ exited' = FALSE
                       /\ edge' = EdgeRec(xt, etag, f0, f1, res.face)
          ELSE \E i \in 0..5, s \in 0..Den :
               \E moy1 \in MoyFor(TetraV[MMG5_iare[i + 1][1] + 1]),
                  moy2 \in MoyFor(TetraV[MMG5_iare[i + 1][2] + 1]) :
                 \E res \in {MMG5_intvolmet(met_m, i, NewPoint, s, moy1, moy2)} :
                     /\ met_m' = res.m
                     /\ mret' = res.r
                     /\ exited' = res.exit
                     /\ stage' = res.stage
                     /\ edge' = EdgeRec(xt, etag, f0, f1, -1)
  /\ mop' = "intmet_ani"
  /\ UNCHANGED <<matvars, met0, ptag>>

interp4bar_ani ==
  /\ mop = "none"
  /\ \E cb \in Weights :
     \E moy0 \in MoyFor(TetraV[1]), moy1 \in MoyFor(TetraV[2]),
        moy2 \in MoyFor(TetraV[3]), moy3 \in MoyFor(TetraV[4]) :
       \E res \in {MMG5_interp4bar_ani(met_m, NewPoint, cb,
                                        <<moy0, moy1, moy2, moy3>>)} :
           /\ met_m' = res.m
           /\ mret' = res.r
           /\ stage' = res.stage
  /\ mop' = "interp4bar_ani"
  /\ path' = "none"
  /\ UNCHANGED <<matvars, met0, ptag, edge, exited>>

interp4bar33_ani ==
  /\ mop = "none"
  /\ \E cb \in Weights :
       \E res \in {MMG5_interp4bar33_ani(met_m, NewPoint, cb)} :
           /\ met_m' = res.m
           /\ mret' = res.r
           /\ stage' = res.stage
  /\ mop' = "interp4bar33_ani"
  /\ path' = "none"
  /\ UNCHANGED <<matvars, met0, ptag, edge, exited>>

NextMet ==
  \/ intmet_ani
  \/ interp4bar_ani
  \/ interp4bar33_ani

SpecMet == InitMet /\ [][NextMet]_vars

(***************************************************************************)
(* Properties of the materials, checked under Spec.                        *)
(***************************************************************************)
\* MMG5_MultiMat_init has just built and published a lookup table.
TableBuilt == op = "MultiMat_init" /\ ret = 1 /\ nmat # 0

IsSplitMat(k) == mat[k].dospl # 0

SplitMats == {k \in 1..nmat : IsSplitMat(k)}

role_of(ref) == MMG5_InvMat_getTag(invmat, ref)
parent_of(ref) == MMG5_InvMat_getParent(invmat, ref)

RoundTrip ==
  \A k \in 1..nmat :
    IF IsSplitMat(k)
      THEN /\ role_of(mat[k].rin) = MG_MINUS
           /\ role_of(mat[k].rex) = MG_PLUS
           /\ parent_of(mat[k].rin) = mat[k].ref
           /\ parent_of(mat[k].rex) = mat[k].ref
      ELSE role_of(mat[k].ref) = 0

\* No slot of the table is claimed twice with different contents: the two
\* children of a material differ, and a child reference of a material is
\* the original reference of another one only if that one splits and was
\* declared earlier.
NoClash ==
  \A k \in SplitMats :
    /\ mat[k].rin # mat[k].rex
    /\ \A j \in (1..nmat) \ {k} :
         mat[j].ref \in Children(mat[k]) => (IsSplitMat(j) /\ j < k)

\* C2 as stated: after a successful build over any list with unique original
\* references and no child reference shared by two materials, in any order,
\* every splitting material has role_of(rin) = MINUS, role_of(rex) = PLUS,
\* parent_of(rin) = parent_of(rex) = ref, and every other material has
\* role_of(ref) = NONE.
C2_RoundTripAnyValidList == TableBuilt => RoundTrip

\* C2 amended: the round trip holds exactly for the lists in which, besides,
\* the two children of each splitting material differ and no child reference
\* is the original reference of a non-splitting material or of a splitting
\* material declared later.
C2_RoundTripIffNoClash == TableBuilt => (NoClash <=> RoundTrip)

C2_Witness ==
  /\ TableBuilt /\ NoClash /\ RoundTrip
  /\ nmat = 2
  /\ IsSplitMat(2) /\ IsSplitMat(1)
  /\ mat[1].ref \in Children(mat[2])

\* C3 as stated: MMG5_isNotSplit returns false for every ref when nmat = 0,
\* and with a built table returns true if and only if role_of(ref) = NONE.
C3_IsNotSplitIffRoleNone ==
  op = "isNotSplit" =>
    IF nmat = 0 THEN ret = 0
    ELSE (ret = 1 <=> role_of(qa) = 0)

\* C4 as stated: MMG5_getIniRef returns ref itself when nmat = 0; otherwise
\* it returns parent_of(ref) when a parent is recorded and ref when
\* parent_of gives -1.
C4_GetIniRefIdentityOrParent ==
  op = "getIniRef" =>
    IF nmat = 0 THEN ret = qa
    ELSE IF parent_of(qa) = -1 THEN ret = qa ELSE ret = parent_of(qa)

\* The materials declaring the queried reference.
Declaring(ref) == {k \in 1..nmat : mat[k].ref = ref}

FirstDeclaring(ref) ==
  CHOOSE k \in Declaring(ref) : \A j \in Declaring(ref) : k <= j

\* C5: MMG5_isSplit answers from the first material declaring ref: not split
\* and outputs unwritten if it does not split, split with its (rin, rex) if
\* it does; split with (MG_MINUS, MG_PLUS) if no material declares ref.
C5_IsSplitScan ==
  op = "isSplit" =>
    IF Declaring(qa) = {}
      THEN ret = 1 /\ refint = MG_MINUS /\ refext = MG_PLUS
    ELSE LET pm == mat[FirstDeclaring(qa)]
         IN  IF pm.dospl = 0
               THEN ret = 0 /\ refint = Unset /\ refext = Unset
               ELSE ret = 1 /\ refint = pm.rin /\ refext = pm.rex

C5_Witness ==
  /\ op = "isSplit" /\ nmat = 2
  /\ IsSplitMat(1) /\ ~IsSplitMat(2)
  /\ qa = mat[2].ref
  /\ ret = 0 /\ refint = Unset /\ refext = Unset

\* C6: MMG5_isLevelSet returns true if and only if the two stored roles are
\* one MINUS and one PLUS.
C6_IsLevelSetIffMinusPlus ==
  op = "isLevelSet" =>
    /\ ret \in {0, 1}
    /\ ret = 1 <=> {role_of(qa), role_of(qb)} = {MG_MINUS, MG_PLUS}

C6_Witness ==
  /\ op = "isLevelSet"
  /\ ret = 0
  /\ role_of(qa) = MG_MINUS /\ role_of(qb) = MG_MINUS
  /\ qa # qb

\* C7 as stated: whenever MMG5_isLevelSet returns true, the two references
\* have the same parent.
C7_StraddleSameParent ==
  (op = "isLevelSet" /\ ret = 1) => parent_of(qa) = parent_of(qb)

\* C7 amended: whenever MMG5_isLevelSet returns true, each of the two
\* references is a child with a recorded parent, and the two parents are the
\* same when a single material splits; with several splitting materials the
\* MINUS child of one and the PLUS child of another do straddle.
C7_StraddleChildren ==
  op = "isLevelSet" =>
    /\ ret = 1 =>
         /\ parent_of(qa) # -1 /\ parent_of(qb) # -1
         /\ \E k \in SplitMats : parent_of(qa) = mat[k].ref
         /\ \E k \in SplitMats : parent_of(qb) = mat[k].ref
         /\ Cardinality(SplitMats) <= 1 => parent_of(qa) = parent_of(qb)
    /\ (role_of(qa) = MG_MINUS /\ role_of(qb) = MG_PLUS) => ret = 1

C7_Witness ==
  /\ op = "isLevelSet" /\ ret = 1
  /\ Cardinality(SplitMats) = 2
  /\ NoClash
  /\ parent_of(qa) # parent_of(qb)

\* MMG5_getIniRef applied again to what it returned.
Idempotent ==
  /\ InRange(invmat, ret)
  /\ MMG5_getIniRefResult(ret) = ret

\* No splitting material has for original reference a child reference of a
\* material declared after it.
NoLateParent ==
  \A k \in SplitMats :
    \A j \in (1..nmat) \ {k} :
      mat[k].ref \in Children(mat[j]) => j < k

\* C8 as stated: on every table built from a valid list, in either order of
\* declaration, MMG5_getIniRef applied twice gives what it gives once.
C8_GetIniRefIdempotent ==
  (op = "getIniRef" /\ nmat # 0) => Idempotent

\* C8 amended: MMG5_getIniRef is idempotent on every table built from a valid
\* list in which no splitting material's original reference is a child
\* reference of a material declared after it.
C8_IdempotentNoLateParent ==
  (op = "getIniRef" /\ nmat # 0 /\ NoLateParent) => Idempotent

C8_Witness ==
  /\ op = "getIniRef" /\ nmat = 2
  /\ NoLateParent
  /\ IsSplitMat(1) /\ IsSplitMat(2)
  /\ mat[2].ref \in Children(mat[1])
  /\ qa \in Children(mat[2])
  /\ ret = mat[2].ref /\ ret # qa

\* C9: MMG5_MultiMat_init returns 0 when fewer materials are supplied than
\* declared and then leaves offset, size and lookup as they were; with
\* nmat = 0 it returns 1 and builds nothing.
C9_IncompleteBuildFails ==
  op = "MultiMat_init" =>
    /\ (0 < nmat /\ nmati < nmat) => (ret = 0 /\ invmat = NoTable)
    /\ nmat = 0 => (ret = 1 /\ invmat = NoTable)

C9_Witness ==
  /\ op = "MultiMat_init"
  /\ nmat = 2 /\ nmati = 1
  /\ ret = 0 /\ invmat = NoTable

(***************************************************************************)
(* Properties of the interpolation, checked under SpecMet.                 *)
(***************************************************************************)
\* The edge of the last _MMG5_intmet_ani is neither ridge nor boundary.
InternalEdge == edge.xt = 0 \/ edge.tag \cap {"GEO", "BDY"} = {}

\* C1 as stated: on an internal edge, when one of the three inversions of
\* _MMG5_intregvolmet fails, _MMG5_intmet_ani returns 0 and the six entries
\* of the new point are as they were.
C1_InternalFailureReturnsFail ==
  (mop = "intmet_ani" /\ InternalEdge /\ stage \in {"inv", "invfinal"})
    => (~exited /\ mret = 0 /\ met_m = met0)

\* Some vertex of the tetrahedron stores a singular tensor.
SomeStoredSingular ==
  \E j \in 1..4 : ~MMG5_invmat(Slot(met0, MetSize, TetraV[j])).ok

\* The entries of the metric array outside the slot of the new point.
Elsewhere ==
  {j \in 1..Len(met0) : j <= MetSize * NewPoint \/ j > MetSize * NewPoint + 6}

\* C10: _MMG5_interp4bar_ani and _MMG5_interp4bar33_ani return 0 and leave
\* the whole metric array as it was when a vertex inversion, the final
\* inversion or the ridge averaging fails; when they succeed only the six
\* entries of the new point change.
C10_BarycentricFailureLeavesMetric ==
  mop \in {"interp4bar_ani", "interp4bar33_ani"} =>
    /\ ~exited
    /\ stage # "none" => (mret = 0 /\ met_m = met0)
    /\ stage = "none" => mret = 1
    /\ (mop = "interp4bar33_ani" /\ SomeStoredSingular) => mret = 0
    /\ Len(met_m) = Len(met0)
    /\ \A j \in Elsewhere : met_m[j] = met0[j]

C10_Witness ==
  /\ mop = "interp4bar_ani"
  /\ stage = "invfinal"
  /\ mret = 0 /\ met_m = met0
  /\ \E j \in 1..4 : ptag[j] = {"GEO"}

Written(pm) == {pm.ref} \cup Children(pm)

\* The index computed for ref falls inside the allocated lookup array.
KeyInside(pim, ref) ==
  /\ 0 <= MMG5_InvMat_key(pim, ref)
  /\ MMG5_InvMat_key(pim, ref) < pim.size
  /\ MMG5_InvMat_key(pim, ref) + 1 \in DOMAIN pim.lookup

\* C12: after a successful MMG5_MultiMat_init, the original reference of
\* every declared material and the two child references of every splitting
\* material lie in [offset, offset+size) with size > 0, so that the writes
\* of MMG5_InvMat_set and the reads of MMG5_InvMat_getParent and
\* MMG5_InvMat_getTag on these references index lookup inside [0, size).
C12_TableSpan ==
  Ready =>
    \A k \in 1..nmat :
      /\ invmat.size > 0
      /\ Len(invmat.lookup) = invmat.size
      /\ \A ref \in Written(mat[k]) :
           /\ InRange(invmat, ref)
           /\ KeyInside(invmat, ref)

\* A table whose smallest reference is greater than 0, with a splitting
\* material whose children are the two ends of the span.
C12_Witness ==
  /\ Ready
  /\ nmat = MaxMat
  /\ invmat.offset > 0
  /\ invmat.size > 1
  /\ \E k \in 1..nmat :
       /\ mat[k].dospl # 0
       /\ mat[k].ref \notin Children(mat[k])
       /\ mat[k].rin = invmat.offset
       /\ mat[k].rex = invmat.offset + invmat.size - 1
       /\ MMG5_InvMat_getTag(invmat, mat[k].rin) = MG_MINUS
       /\ MMG5_InvMat_getParent(invmat, mat[k].rex) = mat[k].ref

====
